---- MODULE Spec2Model ----
(***************************************************************************)
(* Market-data aggregation and caching layer of fund-assistant             *)
(* (src/tools/market_data.py): the MarketDataService facade, its cache,    *)
(* its per-source health table and the data sources it walks.              *)
(*                                                                         *)
(* Time is in seconds, as datetime.now().timestamp() is.  A facade call is *)
(* one action: the cache lookup, the walk over the source order, the       *)
(* health bookkeeping and the cache write happen in the same step.         *)
(***************************************************************************)
EXTENDS Integers, Sequences, FiniteSets, TLC

(***************************************************************************)
(* Bounds of the model                                                     *)
(***************************************************************************)
\* MarketDataService.MAX_CACHE_SIZE is 100 in the source; the ceiling is
\* scaled down so that a handful of requests fill the cache.
MAX_CACHE_SIZE == 2
\* how many times the clock advances in one behaviour
MaxTicks == 3
\* upstream payload versions an adapter may answer with
MaxPayload == 2
\* error_count stops growing here (the source counter is unbounded)
MaxErrorCount == 4
\* worker threads serving requests at the same time
NumThreads == 2

(***************************************************************************)
(* Program constants                                                       *)
(***************************************************************************)
_cache_ttl == 300

FundCodes == {"A", "B", "C"}
\* the fund check_source_health asks for
ProbeCode == "000001"
\* the code the chart/detail operations are exercised with
ChartCodes == {"A"}
RangeTypes == {"y"}
Keywords == {"k"}
TickSteps == {1, 299}
Payloads == 1..MaxPayload

SourceNames == {"eastmoney_mobile", "eastmoney", "akshare", "mock"}
RealSources == SourceNames \ {"mock"}
\* preferred_source values: auto, one per source, and a name no source has
Preferences == {"auto", "eastmoney_mobile", "eastmoney", "akshare", "mock", "other"}

(***************************************************************************)
(* Result records.  Every value the facade handles is a record of one      *)
(* shape; None and the empty list are the two falsy values.                *)
(***************************************************************************)
None == [kind |-> "None", code |-> "", source |-> "", val |-> 0, update_time |-> 0]
EmptyList == [kind |-> "[]", code |-> "", source |-> "", val |-> 0, update_time |-> 0]

Truthy(x) == x.kind \notin {"None", "[]"}

\* what an operation returns when it has nothing
Nothing(op) == IF op \in {"holdings", "search", "rankings", "indices"} THEN EmptyList ELSE None

(***************************************************************************)
(* Data sources                                                            *)
(***************************************************************************)
Outcomes == {"data", "empty", "raise"}

\* AKShareDataSource.__init__ leaves self._akshare = None
akshare_available == FALSE

\* the operations a source class implements with an upstream request; the
\* others are the DataSourceBase defaults or stubs returning None / []
Supported(src) ==
    CASE src = "eastmoney_mobile" ->
            {"nav", "indices", "funds_nav", "detail", "intraday", "history_data",
             "yield", "diagnostic", "holdings", "search", "rankings"}
      [] src = "eastmoney" -> {"nav", "indices", "funds_nav"}
      [] src = "akshare" -> IF akshare_available THEN {"nav", "indices", "funds_nav"} ELSE {}
      [] src = "mock" -> {"nav", "indices", "funds_nav"}

\* the outcomes one call of operation op on source src can have
SourceOutcomes(src, op) ==
    IF op \notin Supported(src) THEN {"empty"}
    ELSE IF src = "mock" THEN {"data"}
    ELSE Outcomes

\* the record a source builds: source = self.name; MockDataSource stamps
\* update_time with datetime.now(), the others copy the upstream time, which
\* is part of the payload
SourceRecord(src, op, code, v, t) ==
    [kind |-> op, code |-> code, source |-> src, val |-> v,
     update_time |-> IF src = "mock" THEN t ELSE v]

(***************************************************************************)
(* State                                                                   *)
(***************************************************************************)
VARIABLES
    _preferred,        \* MarketDataService._preferred
    _production_mode,  \* MarketDataService._production_mode
    _cache,            \* MarketDataService._cache, in dict (insertion) order
    _source_status,    \* MarketDataService._source_status
    now,               \* datetime.now().timestamp()
    ticks,             \* number of clock advances so far
    req,               \* the last facade call: operation and argument
    ret,               \* what it returned
    calls,             \* the source calls it made, in order
    exc,               \* TRUE when it propagated an exception
    failed_attempts,   \* history: failed attempts in a row per source, where counted
    threads            \* the requests in progress on the executor's worker threads

vars == <<_preferred, _production_mode, _cache, _source_status, now, ticks,
          req, ret, calls, exc, failed_attempts, threads>>

Threads == 1..NumThreads

\* a worker thread with no request
IdleThread ==
    [pc |-> "idle", op |-> "", code |-> "", i |-> 0, n |-> 0, ts |-> 0,
     result |-> None, oldest |-> "", remaining |-> {}]

NoReq == [op |-> "", arg |-> "", at |-> 0]

InitStatus ==
    [s \in SourceNames |->
        [status |-> IF s = "mock" THEN "ok" ELSE "unknown",
         last_success |-> -1, last_error |-> "", error_count |-> 0]]

\* the state MarketDataService.__init__ leaves, for the given preferred_source values
InitWith(prefs) ==
    /\ _preferred \in prefs
    /\ _production_mode \in BOOLEAN
    /\ _cache = <<>>
    /\ _source_status = InitStatus
    /\ now = 0
    /\ ticks = 0
    /\ req = NoReq
    /\ ret = None
    /\ calls = <<>>
    /\ exc = FALSE
    /\ failed_attempts = [s \in SourceNames |-> 0]
    /\ threads = [t \in Threads |-> IdleThread]

Init == InitWith(Preferences)

(***************************************************************************)
(* Cache store                                                             *)
(***************************************************************************)
CacheKeys(c) == {c[i].key : i \in 1..Len(c)}

IndexOf(c, k) == CHOOSE i \in 1..Len(c) : c[i].key = k

RemoveAt(c, i) == SubSeq(c, 1, i - 1) \o SubSeq(c, i + 1, Len(c))

\* self._cache[key] = (data, timestamp): an existing key keeps its place
Store(c, k, data, ts) ==
    IF k \in CacheKeys(c)
    THEN [c EXCEPT ![IndexOf(c, k)] = [key |-> k, data |-> data, ts |-> ts]]
    ELSE Append(c, [key |-> k, data |-> data, ts |-> ts])

\* a lookup that never looks at the timestamp
GetFromCache_NoExpiry(c, k, t) ==
    IF k \in CacheKeys(c)
    THEN [value |-> c[IndexOf(c, k)].data, cache |-> c]
    ELSE [value |-> None, cache |-> c]

\* a lookup that restarts the entry's lifetime on a hit
GetFromCache_Refresh(c, k, t) ==
    IF k \in CacheKeys(c)
    THEN LET e == c[IndexOf(c, k)] IN
         IF t - e.ts < _cache_ttl
         THEN [value |-> e.data, cache |-> Store(c, k, e.data, t)]
         ELSE [value |-> None, cache |-> RemoveAt(c, IndexOf(c, k))]
    ELSE [value |-> None, cache |-> c]

\* _get_from_cache: the value (None on a miss) and the cache afterwards
GetFromCache(c, k, t) ==
    IF k \in CacheKeys(c)
    THEN LET e == c[IndexOf(c, k)] IN
         IF t - e.ts < _cache_ttl
         THEN [value |-> e.data, cache |-> c]
         ELSE [value |-> None, cache |-> RemoveAt(c, IndexOf(c, k))]
    ELSE [value |-> None, cache |-> c]

\* min(self._cache.keys(), key=timestamp): the first key of least timestamp
OldestIndex(c) ==
    CHOOSE i \in 1..Len(c) :
        /\ \A j \in 1..Len(c) : c[i].ts <= c[j].ts
        /\ \A j \in 1..(i - 1) : c[j].ts > c[i].ts

\* _set_cache
SetCache(c, k, data, t) ==
    LET c1 == IF Len(c) >= MAX_CACHE_SIZE THEN RemoveAt(c, OldestIndex(c)) ELSE c
    IN Store(c1, k, data, t)

(***************************************************************************)
(* Source order                                                            *)
(***************************************************************************)
\* the preferred source is not taken out of the remaining ones
SeqWithout_Keep(s, x) == s

SeqWithout(s, x) == SelectSeq(s, LAMBDA y : y # x)

\* an order that leaves out the sources whose status is "error"
SourceOrder_SkipsUnhealthy(preferred, production) ==
    SelectSeq(IF preferred = "mock"
              THEN IF production THEN <<"eastmoney", "akshare">> ELSE <<"mock">>
              ELSE IF preferred \in SourceNames
              THEN <<preferred>> \o SeqWithout(<<"eastmoney", "akshare">>, preferred)
                      \o (IF production THEN <<>> ELSE <<"mock">>)
              ELSE IF production
              THEN <<"eastmoney_mobile", "eastmoney", "akshare">>
              ELSE <<"eastmoney_mobile", "eastmoney", "akshare", "mock">>,
              LAMBDA s : _source_status[s].status # "error")

\* an order that ends with the mock source in every mode
SourceOrder_MockInProduction(preferred, production) ==
    IF preferred = "mock" THEN <<"mock">>
    ELSE IF preferred \in SourceNames
    THEN <<preferred>> \o SeqWithout(<<"eastmoney", "akshare">>, preferred) \o <<"mock">>
    ELSE <<"eastmoney_mobile", "eastmoney", "akshare", "mock">>

\* _get_source_order
SourceOrder(preferred, production) ==
    IF preferred = "mock"
    THEN IF production THEN <<"eastmoney", "akshare">> ELSE <<"mock">>
    ELSE IF preferred \in SourceNames
    THEN <<preferred>> \o SeqWithout(<<"eastmoney", "akshare">>, preferred)
            \o (IF production THEN <<>> ELSE <<"mock">>)
    ELSE IF production
    THEN <<"eastmoney_mobile", "eastmoney", "akshare">>
    ELSE <<"eastmoney_mobile", "eastmoney", "akshare", "mock">>

(***************************************************************************)
(* Fallback walk                                                           *)
(***************************************************************************)
\* the answers of the real sources to one request: out[s] is what source s
\* does if the walk reaches it
OutcomeFns(op) ==
    {out \in [RealSources -> Outcomes] : \A s \in RealSources : out[s] \in SourceOutcomes(s, op)}

\* the answers of non-raising sources (every source class of the repository
\* catches its own exceptions and returns None / [])
QuietFns(op) == {out \in OutcomeFns(op) : \A s \in RealSources : out[s] # "raise"}

OutcomeOf(out, src, op) == IF src = "mock" THEN CHOOSE o \in SourceOutcomes("mock", op) : TRUE ELSE out[src]

\* position of the first source of the order that answers with data, 0 if none
RECURSIVE HitIndex(_, _, _, _)
HitIndex(order, out, op, i) ==
    IF i > Len(order) THEN 0
    ELSE IF OutcomeOf(out, order[i], op) = "data" THEN i
    ELSE HitIndex(order, out, op, i + 1)

\* a loop without break: every source of the order is called
Attempted_NoBreak(order, out, op) == order

\* the sources the loop calls: the order up to and including the first hit
Attempted(order, out, op) ==
    LET h == HitIndex(order, out, op, 1) IN
    IF h = 0 THEN order ELSE SubSeq(order, 1, h)

SeqRange(s) == {s[i] : i \in 1..Len(s)}

\* one entry per source call: who was asked what, and how the call ended
CallLog(srcs, op, codes, out) ==
    [i \in 1..Len(srcs) |->
        [src |-> srcs[i], op |-> op, codes |-> codes, outcome |-> OutcomeOf(out, srcs[i], op)]]

\* the operation asked of the source: get_fund_nav_history asks get_historical_nav
SourceOp(op) == IF op = "history" THEN "history_data" ELSE op

(***************************************************************************)
(* Cache keys: the f-strings of the facade                                 *)
(***************************************************************************)
NavKey(code) == "nav_" \o code
DetailKey(code) == "detail_" \o code
IntradayKey(code) == "intraday_" \o code
HistoryDataKey(code, range) == "history_data_" \o code \o "_" \o range
YieldKey(code, range) == "yield_" \o code \o "_" \o range
DiagnosticKey(code) == "diagnostic_" \o code
HistoryKey(code, range) == "history_" \o code \o "_" \o range
HoldingsKey(code) == "holdings_" \o code
SearchKey(keyword) == "search_" \o keyword
IndicesKey == "indices"

(***************************************************************************)
(* Health bookkeeping of get_fund_nav                                      *)
(***************************************************************************)
\* record of source s after the loop of get_fund_nav tried the sources in tried
StatusAfterAttempt(st, outcome, t) ==
    IF outcome = "data"
    THEN [st EXCEPT !.last_success = t, !.status = "ok", !.error_count = 0]
    ELSE IF outcome = "raise"
    THEN [st EXCEPT !.last_error = "error",
                    !.error_count = st.error_count + 1,
                    !.status = IF st.error_count + 1 >= 3 THEN "error" ELSE st.status]
    ELSE st

StatusAfterWalk(status, tried, out, op, t) ==
    [s \in SourceNames |->
        IF s \in SeqRange(tried) /\ s # "mock"
        THEN StatusAfterAttempt(status[s], OutcomeOf(out, s, op), t)
        ELSE status[s]]

\* error_count is capped: a source whose counter is at the cap does not raise
WithinErrorCap(tried, out) ==
    \A s \in SeqRange(tried) \cap RealSources :
        out[s] = "raise" => _source_status[s].error_count < MaxErrorCount

(***************************************************************************)
(* Facade operations                                                       *)
(***************************************************************************)
Observe(op, arg, value, log, raised) ==
    /\ req' = [op |-> op, arg |-> arg, at |-> now]
    /\ ret' = value
    /\ calls' = log
    /\ exc' = raised
    /\ UNCHANGED threads

\* get_fund_nav, the program state only
\* a last resort whose answer is cached like any other
AfterFallback_Cached(c, key, data, t) == SetCache(c, key, data, t)

\* return self._sources["mock"]...: the last-resort answer is returned
\* without a write to the cache
AfterFallback(c, key, data, t) == c

FundNavRequest(code, out, v) ==
    LET key == NavKey(code)
        g == GetFromCache(_cache, key, now)
        order == SourceOrder(_preferred, _production_mode)
        h == HitIndex(order, out, "nav", 1)
        tried == Attempted(order, out, "nav")
    IN
    IF Truthy(g.value)
    THEN /\ Observe("nav", code, g.value, <<>>, FALSE)
         /\ _cache' = g.cache
         /\ UNCHANGED <<_preferred, _production_mode, _source_status, now, ticks>>
    ELSE /\ WithinErrorCap(tried, out)
         /\ _source_status' = StatusAfterWalk(_source_status, tried, out, "nav", now)
         /\ IF h # 0
            THEN LET result == SourceRecord(order[h], "nav", code, v, now) IN
                 /\ _cache' = SetCache(g.cache, key, result, now)
                 /\ Observe("nav", code, result, CallLog(tried, "nav", {code}, out), FALSE)
            ELSE \* every source of the order failed: the mock source answers
                 /\ _cache' = AfterFallback(g.cache, key, SourceRecord("mock", "nav", code, v, now), now)
                 /\ Observe("nav", code, SourceRecord("mock", "nav", code, v, now),
                            CallLog(Append(tried, "mock"), "nav", {code}, out), FALSE)
         /\ UNCHANGED <<_preferred, _production_mode, now, ticks>>

\* get_fund_nav
GetFundNav(code, out, v) == FundNavRequest(code, out, v) /\ UNCHANGED failed_attempts

\* failed attempts in a row: an attempt that raises or returns nothing adds
\* one (up to 3), an attempt that returns data starts again from 0
RunAfterWalk(run, tried, out) ==
    [s \in SourceNames |->
        IF s \in SeqRange(tried) /\ s # "mock"
        THEN IF out[s] = "data" THEN 0
             ELSE IF run[s] < 3 THEN run[s] + 1 ELSE 3
        ELSE run[s]]

\* get_fund_nav, with the failed attempts of its loop counted
GetFundNavCounted(code, out, v) ==
    /\ FundNavRequest(code, out, v)
    /\ failed_attempts' =
          IF Truthy(GetFromCache(_cache, NavKey(code), now).value) THEN failed_attempts
          ELSE RunAfterWalk(failed_attempts,
                            Attempted(SourceOrder(_preferred, _production_mode), out, "nav"), out)

\* get_market_indices
GetMarketIndices(out, v) ==
    LET key == IndicesKey
        g == GetFromCache(_cache, key, now)
        order == SourceOrder(_preferred, _production_mode)
        h == HitIndex(order, out, "indices", 1)
        tried == Attempted(order, out, "indices")
    IN
    /\ IF Truthy(g.value)
       THEN /\ Observe("indices", "", g.value, <<>>, FALSE)
            /\ _cache' = g.cache
       ELSE IF h # 0
       THEN LET result == SourceRecord(order[h], "indices", "", v, now) IN
            /\ _cache' = SetCache(g.cache, key, result, now)
            /\ Observe("indices", "", result, CallLog(tried, "indices", {}, out), FALSE)
       ELSE /\ _cache' = AfterFallback(g.cache, key, SourceRecord("mock", "indices", "", v, now), now)
            /\ Observe("indices", "", SourceRecord("mock", "indices", "", v, now),
                       CallLog(Append(tried, "mock"), "indices", {}, out), FALSE)
    /\ UNCHANGED <<failed_attempts, _preferred, _production_mode, _source_status, now, ticks>>

(***************************************************************************)
(* Batch valuation                                                         *)
(***************************************************************************)
\* the orders in which a source's answer dict can list the codes
Perms(S) == {p \in [1..Cardinality(S) -> S] : \A i, j \in 1..Cardinality(S) : i # j => p[i] # p[j]}

\* source.get_funds_nav(codes): the codes the source has data for; the mock
\* source has data for every code
ServedBy(src, serves, remaining) ==
    IF src = "mock" THEN remaining ELSE serves[src] \cap remaining

\* for code, data in batch_results.items(): if data: self._set_cache(...)
RECURSIVE CacheBatch(_, _, _, _, _, _, _)
CacheBatch(c, perm, i, got, src, v, t) ==
    IF i > Len(perm) THEN c
    ELSE IF perm[i] \in got
    THEN CacheBatch(SetCache(c, NavKey(perm[i]), SourceRecord(src, "nav", perm[i], v, t), t),
                    perm, i + 1, got, src, v, t)
    ELSE CacheBatch(c, perm, i + 1, got, src, v, t)

\* a loop that leaves served codes in the missing set
RemoveServed_Keep(remaining, got) == remaining

\* if code in remaining_missing: remaining_missing.remove(code)
RemoveServed(remaining, got) == remaining \ got

\* the loop over the source order of get_funds_nav, from position i on
RECURSIVE BatchWalk(_, _, _, _, _, _, _, _, _, _)
BatchWalk(order, i, remaining, c, results, log, raises, serves, perm, vt) ==
    IF i > Len(order) \/ remaining = {}
    THEN [remaining |-> remaining, cache |-> c, results |-> results, log |-> log]
    ELSE LET src == order[i]
             got == ServedBy(src, serves, remaining)
             entry(o) == [src |-> src, op |-> "funds_nav", codes |-> remaining, outcome |-> o]
         IN
         IF src \in raises
         THEN BatchWalk(order, i + 1, remaining, c, results, Append(log, entry("raise")),
                        raises, serves, perm, vt)
         ELSE BatchWalk(order, i + 1, RemoveServed(remaining, got),
                        CacheBatch(c, perm, 1, got, src, vt[1], vt[2]),
                        [code \in DOMAIN results |->
                            IF code \in got THEN SourceRecord(src, "nav", code, vt[1], vt[2])
                            ELSE results[code]],
                        Append(log, entry(IF got = {} THEN "empty" ELSE "data")),
                        raises, serves, perm, vt)

\* step 1 skipped: every requested code counts as missing
MissingCodes_All(c, fund_codes, t) == fund_codes

\* the codes of a batch request with no live cache entry (step 1 of get_funds_nav)
MissingCodes(c, fund_codes, t) ==
    {code \in fund_codes : ~Truthy(GetFromCache(c, NavKey(code), t).value)}

\* get_funds_nav.  fund_codes is taken as a set: the walk works on
\* set(missing_codes) and the answer is a dict.
GetFundsNav(fund_codes, raises, serves, perm, v) ==
    LET navkeys == {NavKey(code) : code \in fund_codes}
        \* step 1, _get_from_cache per code: expired entries are deleted
        c1 == SelectSeq(_cache, LAMBDA e : ~(e.key \in navkeys /\ now - e.ts >= _cache_ttl))
        cached == [code \in fund_codes |-> GetFromCache(_cache, NavKey(code), now).value]
        order == SourceOrder(_preferred, _production_mode)
    IN
    /\ \A s \in RealSources : serves[s] # {} => "data" \in SourceOutcomes(s, "funds_nav")
    /\ \A s \in raises : "raise" \in SourceOutcomes(s, "funds_nav")
    /\ \E w \in {BatchWalk(order, 1, MissingCodes(_cache, fund_codes, now), c1, cached, <<>>,
                           raises, serves, perm, <<v, now>>)} :
        /\ _cache' = w.cache
        /\ IF w.remaining = {}
           THEN Observe("funds_nav", fund_codes, w.results, w.log, FALSE)
           ELSE \* step 3: the mock source answers for the codes still missing
                Observe("funds_nav", fund_codes,
                        [code \in fund_codes |->
                            IF code \in w.remaining THEN SourceRecord("mock", "nav", code, v, now)
                            ELSE w.results[code]],
                        Append(w.log, [src |-> "mock", op |-> "funds_nav",
                                       codes |-> w.remaining, outcome |-> "data"]),
                        FALSE)
    /\ UNCHANGED <<failed_attempts, _preferred, _production_mode, _source_status, now, ticks>>

\* the operations that walk the order and return the first non-empty answer
\* without health bookkeeping and without a final mock call: get_fund_details
\* stores through _set_cache, the others assign self._cache[key] themselves
\* with the timestamp moved forward by TsOffset
TsOffset(op) ==
    CASE op = "intraday" -> 0
      [] op = "history_data" -> 3600
      [] op = "yield" -> 3600
      [] op = "diagnostic" -> 86400
      [] op = "history" -> 3600 * 4
      [] op = "holdings" -> 3600

\* get_fund_nav_history returns a list of dicts built from the points, which
\* has no source field
WalkResult(src, op, code, v, t) ==
    IF op = "history" THEN [SourceRecord(src, op, code, v, t) EXCEPT !.source = ""]
    ELSE SourceRecord(src, op, code, v, t)

WalkOnly(op, key, code, out, v) ==
    LET g == GetFromCache(_cache, key, now)
        order == SourceOrder(_preferred, _production_mode)
        h == HitIndex(order, out, SourceOp(op), 1)
        tried == Attempted(order, out, SourceOp(op))
    IN
    /\ IF Truthy(g.value)
       THEN /\ Observe(op, key, g.value, <<>>, FALSE)
            /\ _cache' = g.cache
       ELSE IF h # 0
       THEN LET result == WalkResult(order[h], op, code, v, now) IN
            /\ _cache' = IF op = "detail" THEN SetCache(g.cache, key, result, now)
                         ELSE Store(g.cache, key, result, now + TsOffset(op))
            /\ Observe(op, key, result, CallLog(tried, SourceOp(op), {code}, out), FALSE)
       ELSE /\ _cache' = g.cache
            /\ Observe(op, key, Nothing(op), CallLog(tried, SourceOp(op), {code}, out), FALSE)
    /\ UNCHANGED <<failed_attempts, _preferred, _production_mode, _source_status, now, ticks>>

\* the writes that bypass _set_cache are followed until the cache is one
\* entry above the ceiling
BelowOverflow == Len(_cache) <= MAX_CACHE_SIZE

\* get_fund_details
GetFundDetails(code, out, v) == WalkOnly("detail", DetailKey(code), code, out, v)

\* get_intraday_valuation
GetIntradayValuation(code, out, v) ==
    BelowOverflow /\ WalkOnly("intraday", IntradayKey(code), code, out, v)

\* get_historical_nav
GetHistoricalNav(code, range, out, v) ==
    BelowOverflow /\ WalkOnly("history_data", HistoryDataKey(code, range), code, out, v)

\* get_historical_yield
GetHistoricalYield(code, range, out, v) ==
    BelowOverflow /\ WalkOnly("yield", YieldKey(code, range), code, out, v)

\* get_fund_diagnostic
GetFundDiagnostic(code, out, v) ==
    BelowOverflow /\ WalkOnly("diagnostic", DiagnosticKey(code), code, out, v)

\* get_fund_nav_history
GetFundNavHistory(code, range, out, v) ==
    BelowOverflow /\ WalkOnly("history", HistoryKey(code, range), code, out, v)

\* get_fund_holdings
GetFundHoldings(code, out, v) ==
    BelowOverflow /\ WalkOnly("holdings", HoldingsKey(code), code, out, v)

\* search_fund: asks eastmoney_mobile only, outside any try block
\* a write that does not look at the result
CacheIfTruthy_Always(c, key, results, t) == SetCache(c, key, results, t)

\* if results: self._set_cache(cache_key, results)
CacheIfTruthy(c, key, results, t) ==
    IF Truthy(results) THEN SetCache(c, key, results, t) ELSE c

SearchFund(keyword, o, v) ==
    LET key == SearchKey(keyword)
        g == GetFromCache(_cache, key, now)
        asked == _preferred \in {"eastmoney_mobile", "auto"}
        log == IF asked
               THEN <<[src |-> "eastmoney_mobile", op |-> "search", codes |-> {keyword}, outcome |-> o]>>
               ELSE <<>>
    IN
    /\ IF Truthy(g.value)
       THEN /\ Observe("search", key, g.value, <<>>, FALSE)
            /\ _cache' = g.cache
       ELSE IF asked /\ o = "raise"
       THEN /\ Observe("search", key, None, log, TRUE)
            /\ _cache' = g.cache
       ELSE LET results == IF asked /\ o = "data"
                           THEN SourceRecord("eastmoney_mobile", "search", keyword, v, now)
                           ELSE EmptyList
            IN
            /\ _cache' = CacheIfTruthy(g.cache, key, results, now)
            /\ Observe("search", key, results, log, FALSE)
    /\ UNCHANGED <<failed_attempts, _preferred, _production_mode, _source_status, now, ticks>>

\* get_fund_rankings: no cache, eastmoney_mobile only, outside any try block
GetFundRankings(sort_by, o, v) ==
    /\ LET log == <<[src |-> "eastmoney_mobile", op |-> "rankings", codes |-> {sort_by}, outcome |-> o]>> IN
       IF o = "raise"
       THEN Observe("rankings", sort_by, None, log, TRUE)
       ELSE Observe("rankings", sort_by,
                    IF o = "data" THEN SourceRecord("eastmoney_mobile", "rankings", sort_by, v, now)
                    ELSE EmptyList,
                    log, FALSE)
    /\ UNCHANGED <<failed_attempts, _preferred, _production_mode, _cache, _source_status, now, ticks>>

\* check_source_health, all but the cache
ProbeEffect(source_name, o) ==
    /\ IF source_name \notin SourceNames
       THEN /\ _source_status' = _source_status
            /\ failed_attempts' = failed_attempts
            /\ Observe("check_source_health", source_name,
                       [None EXCEPT !.kind = "error"], <<>>, FALSE)
       ELSE /\ o \in SourceOutcomes(source_name, "nav")
            /\ o = "raise" => _source_status[source_name].error_count < MaxErrorCount
            /\ _source_status' =
                  [_source_status EXCEPT ![source_name] =
                      IF o = "data"
                      THEN [@ EXCEPT !.status = "ok", !.last_success = now, !.error_count = 0]
                      ELSE IF o = "empty"
                      THEN [@ EXCEPT !.status = "degraded"]
                      ELSE [@ EXCEPT !.status = "error", !.last_error = "error",
                                     !.error_count = @ + 1]]
            \* a successful probe ends a run of failed attempts
            /\ failed_attempts' = IF o = "data" THEN [failed_attempts EXCEPT ![source_name] = 0]
                                  ELSE failed_attempts
            /\ Observe("check_source_health", source_name,
                       [None EXCEPT !.kind = IF o = "data" THEN "ok"
                                             ELSE IF o = "empty" THEN "degraded" ELSE "error",
                                    !.source = source_name],
                       <<[src |-> source_name, op |-> "nav", codes |-> {ProbeCode}, outcome |-> o]>>,
                       FALSE)
    /\ UNCHANGED <<_preferred, _production_mode, now, ticks>>

\* a probe that stores the record it got
CheckSourceHealth_CachesProbe(source_name, o) ==
    /\ ProbeEffect(source_name, o)
    /\ _cache' = IF source_name \in SourceNames /\ o = "data"
                 THEN SetCache(_cache, NavKey(ProbeCode),
                               SourceRecord(source_name, "nav", ProbeCode, 1, now), now)
                 ELSE _cache

\* check_source_health
CheckSourceHealth(source_name, o) ==
    /\ ProbeEffect(source_name, o)
    /\ UNCHANGED _cache

ClearCache ==
    /\ _cache' = <<>>
    /\ Observe("clear_cache", "", None, <<>>, FALSE)
    /\ UNCHANGED <<failed_attempts, _preferred, _production_mode, _source_status, now, ticks>>

Tick(d) ==
    /\ ticks < MaxTicks
    /\ now' = now + d
    /\ ticks' = ticks + 1
    /\ UNCHANGED <<failed_attempts, _preferred, _production_mode, _cache, _source_status,
                   req, ret, calls, exc, threads>>

(***************************************************************************)
(* Requests on worker threads.  get_fund_nav_async and get_funds_nav_async *)
(* hand the synchronous method to the default executor, a thread pool, so  *)
(* two requests interleave at the statements that touch self._cache.  Each *)
(* step below is one such statement: a dict lookup, assignment or del is   *)
(* atomic, and the min() scan of _set_cache is taken as one step as well.  *)
(***************************************************************************)
ThreadFrame ==
    UNCHANGED <<_preferred, _production_mode, now, ticks, req, ret, calls, exc, failed_attempts>>

SetThread(t, r) == threads' = [threads EXCEPT ![t] = r]

\* attempts of one request, counted up to one more than the longest order
MaxAttempts == 5

\* the funds the worker threads are asked for
ThreadCodes == {"A", "B"}

\* for source_name in self._get_source_order(): the next position
NextIndex_Retry(i) == i

NextIndex(i) == i + 1

\* a worker thread picks up get_fund_nav(code)
T_Call(t, code) ==
    /\ threads[t].pc = "idle"
    /\ SetThread(t, [IdleThread EXCEPT !.pc = "contains", !.op = "nav", !.code = code])
    /\ UNCHANGED <<_cache, _source_status>>
    /\ ThreadFrame

\* _get_from_cache: if key in self._cache
T_Contains(t) ==
    LET th == threads[t] IN
    /\ th.pc = "contains"
    /\ SetThread(t, IF NavKey(th.code) \in CacheKeys(_cache)
                    THEN [th EXCEPT !.pc = "read"]
                    ELSE [th EXCEPT !.pc = "loop", !.i = 1])
    /\ UNCHANGED <<_cache, _source_status>>
    /\ ThreadFrame

\* _get_from_cache: data, timestamp = self._cache[key] (KeyError if the key is gone)
T_Read(t) ==
    LET th == threads[t]
        key == NavKey(th.code)
    IN
    /\ th.pc = "read"
    /\ SetThread(t, IF key \in CacheKeys(_cache)
                    THEN [th EXCEPT !.pc = "fresh", !.ts = _cache[IndexOf(_cache, key)].ts,
                                    !.result = _cache[IndexOf(_cache, key)].data]
                    ELSE [th EXCEPT !.pc = "raised"])
    /\ UNCHANGED <<_cache, _source_status>>
    /\ ThreadFrame

\* _get_from_cache: if now - timestamp < self._cache_ttl: return data
T_Fresh(t) ==
    LET th == threads[t] IN
    /\ th.pc = "fresh"
    /\ SetThread(t, IF now - th.ts < _cache_ttl
                    THEN [th EXCEPT !.pc = "returned"]
                    ELSE [th EXCEPT !.pc = "del", !.result = None])
    /\ UNCHANGED <<_cache, _source_status>>
    /\ ThreadFrame

\* _get_from_cache: del self._cache[key] (KeyError if the key is gone)
T_Del(t) ==
    LET th == threads[t]
        key == NavKey(th.code)
    IN
    /\ th.pc = "del"
    /\ IF key \in CacheKeys(_cache)
       THEN /\ _cache' = RemoveAt(_cache, IndexOf(_cache, key))
            /\ SetThread(t, [th EXCEPT !.pc = "loop", !.i = 1])
       ELSE /\ _cache' = _cache
            /\ SetThread(t, [th EXCEPT !.pc = "raised"])
    /\ UNCHANGED _source_status
    /\ ThreadFrame

\* one pass of the loop of get_fund_nav: the source at position i answers o
T_Try(t, o, v) ==
    LET th == threads[t]
        order == SourceOrder(_preferred, _production_mode)
        src == order[th.i]
        counted == [th EXCEPT !.n = IF th.n < MaxAttempts THEN th.n + 1 ELSE th.n]
    IN
    /\ th.pc = "loop"
    /\ th.i <= Len(order)
    /\ o \in SourceOutcomes(src, "nav")
    /\ (o = "raise" /\ src # "mock") => _source_status[src].error_count < MaxErrorCount
    /\ _source_status' =
          IF src = "mock" THEN _source_status
          ELSE [_source_status EXCEPT ![src] = StatusAfterAttempt(@, o, now)]
    /\ SetThread(t, IF o = "data"
                    THEN [counted EXCEPT !.pc = "set_len",
                                         !.result = SourceRecord(src, "nav", th.code, v, now)]
                    ELSE IF NextIndex(th.i) > Len(order)
                    THEN [counted EXCEPT !.pc = "fallback"]
                    ELSE [counted EXCEPT !.i = NextIndex(th.i)])
    /\ UNCHANGED _cache
    /\ ThreadFrame

\* _set_cache: if len(self._cache) >= self.MAX_CACHE_SIZE
T_SetLen(t) ==
    LET th == threads[t] IN
    /\ th.pc = "set_len"
    /\ SetThread(t, [th EXCEPT !.pc = IF Len(_cache) >= MAX_CACHE_SIZE THEN "set_min"
                                      ELSE "set_store"])
    /\ UNCHANGED <<_cache, _source_status>>
    /\ ThreadFrame

\* _set_cache: oldest_key = min(...) (ValueError if the dict is empty by now)
T_SetMin(t) ==
    LET th == threads[t] IN
    /\ th.pc = "set_min"
    /\ SetThread(t, IF _cache = <<>>
                    THEN [th EXCEPT !.pc = "raised"]
                    ELSE [th EXCEPT !.pc = "set_del", !.oldest = _cache[OldestIndex(_cache)].key])
    /\ UNCHANGED <<_cache, _source_status>>
    /\ ThreadFrame

\* _set_cache: del self._cache[oldest_key] (KeyError if the key is gone)
T_SetDel(t) ==
    LET th == threads[t] IN
    /\ th.pc = "set_del"
    /\ IF th.oldest \in CacheKeys(_cache)
       THEN /\ _cache' = RemoveAt(_cache, IndexOf(_cache, th.oldest))
            /\ SetThread(t, [th EXCEPT !.pc = "set_store"])
       ELSE /\ _cache' = _cache
            /\ SetThread(t, [th EXCEPT !.pc = "raised"])
    /\ UNCHANGED _source_status
    /\ ThreadFrame

\* _set_cache: self._cache[key] = (data, now); return result
T_SetStore(t) ==
    LET th == threads[t] IN
    /\ th.pc = "set_store"
    /\ _cache' = Store(_cache, NavKey(th.code), th.result, now)
    /\ SetThread(t, [th EXCEPT !.pc = "returned"])
    /\ UNCHANGED _source_status
    /\ ThreadFrame

\* the loop found nothing: return self._sources["mock"].get_fund_nav(fund_code)
T_Fallback(t, v) ==
    LET th == threads[t] IN
    /\ th.pc = "fallback"
    /\ SetThread(t, [th EXCEPT !.pc = "returned",
                               !.result = SourceRecord("mock", "nav", th.code, v, now)])
    /\ UNCHANGED <<_cache, _source_status>>
    /\ ThreadFrame

\* the future of the request completes, with a result or with the exception
T_Return(t) ==
    /\ threads[t].pc \in {"returned", "raised"}
    /\ SetThread(t, IdleThread)
    /\ UNCHANGED <<_cache, _source_status>>
    /\ ThreadFrame

\* a worker thread picks up get_funds_nav(fund_codes) and runs its step 1,
\* the cache lookups (taken as one step)
B_Call(t, fund_codes) ==
    LET navkeys == {NavKey(code) : code \in fund_codes}
        missing == MissingCodes(_cache, fund_codes, now)
    IN
    /\ threads[t].pc = "idle"
    /\ _cache' = SelectSeq(_cache, LAMBDA e : ~(e.key \in navkeys /\ now - e.ts >= _cache_ttl))
    /\ SetThread(t, IF missing = {}
                    THEN [IdleThread EXCEPT !.pc = "returned", !.op = "funds_nav"]
                    ELSE [IdleThread EXCEPT !.pc = "batch", !.op = "funds_nav", !.i = 1,
                                            !.remaining = missing])
    /\ UNCHANGED _source_status
    /\ ThreadFrame

\* one pass of the loop of get_funds_nav: the source at position i raises,
\* or has data for the codes in got, which are cached in the order perm
B_Try(t, raises, got, perm, v) ==
    LET th == threads[t]
        order == SourceOrder(_preferred, _production_mode)
        src == order[th.i]
        served == IF raises THEN {} ELSE got
        left == th.remaining \ served
        counted == [th EXCEPT !.n = IF th.n < MaxAttempts THEN th.n + 1 ELSE th.n,
                              !.remaining = left]
    IN
    /\ th.pc = "batch"
    /\ th.i <= Len(order)
    /\ raises => "raise" \in SourceOutcomes(src, "funds_nav")
    /\ ~raises =>
          /\ got \subseteq th.remaining
          /\ src = "mock" => got = th.remaining
          /\ "data" \notin SourceOutcomes(src, "funds_nav") => got = {}
          /\ perm \in Perms(got)
    /\ _cache' = IF raises THEN _cache ELSE CacheBatch(_cache, perm, 1, got, src, v, now)
    /\ SetThread(t, IF left = {}
                    THEN [counted EXCEPT !.pc = "returned"]
                    ELSE IF NextIndex(th.i) > Len(order)
                    THEN [counted EXCEPT !.pc = "bfallback"]
                    ELSE [counted EXCEPT !.i = NextIndex(th.i)])
    /\ UNCHANGED _source_status
    /\ ThreadFrame

\* step 3 of get_funds_nav: the mock source answers for the codes still missing
B_Fallback(t) ==
    LET th == threads[t] IN
    /\ th.pc = "bfallback"
    /\ SetThread(t, [th EXCEPT !.pc = "returned", !.remaining = {}])
    /\ UNCHANGED <<_cache, _source_status>>
    /\ ThreadFrame

\* every statement of get_fund_nav on thread t, asked for one of codes, the
\* sources answering from outs
NavStepsOn(t, codes, outs) ==
    \/ \E code \in codes : T_Call(t, code)
    \/ T_Contains(t)
    \/ T_Read(t)
    \/ T_Fresh(t)
    \/ T_Del(t)
    \/ \E o \in outs : T_Try(t, o, 1)
    \/ T_SetLen(t)
    \/ T_SetMin(t)
    \/ T_SetDel(t)
    \/ T_SetStore(t)
    \/ T_Fallback(t, 1)
    \/ T_Return(t)

NavSteps(t, outs) == NavStepsOn(t, ThreadCodes, outs)

\* get_fund_nav on thread t against non-raising sources
NavStep(t) == NavSteps(t, {"data", "empty"})

\* the batch requests of a worker thread
ThreadBatches == {{"A", "B", "C"}, {"C"}}

\* every step of get_funds_nav on thread t
BatchStep(t) ==
    \/ \E fund_codes \in ThreadBatches : B_Call(t, fund_codes)
    \/ \E got \in SUBSET threads[t].remaining :
          \E perm \in Perms(got), raises \in BOOLEAN : B_Try(t, raises, got, perm, 1)
    \/ B_Fallback(t)

(***************************************************************************)
(* Specifications                                                          *)
(***************************************************************************)
\* health accounting: get_fund_nav and the probe against sources that may raise
NextHealth ==
    \/ \E out \in OutcomeFns("nav") : GetFundNavCounted("A", out, 1)
    \/ \E s \in {"eastmoney_mobile", "mock", "other"}, o \in Outcomes : CheckSourceHealth(s, o)
    \/ ClearCache

SpecHealth == InitWith({"auto", "eastmoney"}) /\ [][NextHealth]_vars

\* the answers of the real sources to one batch request: a source raises or
\* has data for some of the codes; as a source is only asked for the codes no
\* earlier source had, the sets are taken disjoint
BatchAnswers(fund_codes) ==
    {a \in [raises : SUBSET {"eastmoney_mobile", "eastmoney"},
            mobile : SUBSET fund_codes, web : SUBSET fund_codes] :
        /\ a.mobile \cap a.web = {}
        /\ "eastmoney_mobile" \in a.raises => a.mobile = {}
        /\ "eastmoney" \in a.raises => a.web = {}}

ServesOf(a) ==
    [s \in RealSources |->
        IF s = "eastmoney_mobile" THEN a.mobile ELSE IF s = "eastmoney" THEN a.web ELSE {}]

\* source order: the walks of get_fund_nav, get_fund_details and
\* get_market_indices under every preference, against sources that may raise
NextOrder ==
    \/ \E out \in OutcomeFns("nav") : GetFundNav("A", out, 1)
    \/ \E out \in OutcomeFns("detail") : GetFundDetails("A", out, 1)
    \/ \E out \in OutcomeFns("indices") : GetMarketIndices(out, 1)
    \/ \E a \in BatchAnswers({"A"}) : GetFundsNav({"A"}, a.raises, ServesOf(a), <<"A">>, 1)
    \/ ClearCache

SpecOrder == Init /\ [][NextOrder]_vars

\* the cache under every kind of query, against sources that may raise
\* (get_fund_nav against sources that do not, which keeps the health table small)
NextCache ==
    \/ \E code \in {"A", "B"}, out \in QuietFns("nav") : GetFundNav(code, out, 1)
    \/ \E out \in OutcomeFns("indices") : GetMarketIndices(out, 1)
    \/ \E code \in ChartCodes, out \in OutcomeFns("detail") : GetFundDetails(code, out, 1)
    \/ \E code \in ChartCodes, out \in OutcomeFns("intraday") : GetIntradayValuation(code, out, 1)
    \/ \E code \in ChartCodes, range \in RangeTypes, out \in OutcomeFns("history_data") :
          GetHistoricalNav(code, range, out, 1)
    \/ \E code \in ChartCodes, range \in RangeTypes, out \in OutcomeFns("yield") :
          GetHistoricalYield(code, range, out, 1)
    \/ \E code \in ChartCodes, out \in OutcomeFns("diagnostic") : GetFundDiagnostic(code, out, 1)
    \/ \E code \in ChartCodes, range \in RangeTypes, out \in OutcomeFns("history_data") :
          GetFundNavHistory(code, range, out, 1)
    \/ \E code \in ChartCodes, out \in OutcomeFns("holdings") : GetFundHoldings(code, out, 1)
    \/ \E keyword \in Keywords, o \in Outcomes : SearchFund(keyword, o, 1)
    \/ \E o \in Outcomes, v \in Payloads : GetFundRankings("1r", o, v)
    \/ ClearCache

SpecCache == InitWith({"auto"}) /\ [][NextCache]_vars

\* batch valuation next to single valuation
BatchRequests == {{"A", "B", "C"}, {"B", "C"}, {}}

NextBatch ==
    \/ \E out \in QuietFns("nav") : GetFundNav("A", out, 1)
    \/ \E fund_codes \in BatchRequests :
          \E a \in BatchAnswers(fund_codes), perm \in Perms(fund_codes) :
            GetFundsNav(fund_codes, a.raises, ServesOf(a), perm, 1)
    \/ ClearCache

SpecBatch == InitWith({"auto", "eastmoney"}) /\ [][NextBatch]_vars

\* expiry: single and batch valuation against non-raising sources while the
\* clock advances
NextTTL ==
    \/ \E out \in QuietFns("nav"), v \in Payloads : GetFundNav("A", out, v)
    \/ \E a \in BatchAnswers({"A"}) :
          a.raises = {} /\ GetFundsNav({"A"}, a.raises, ServesOf(a), <<"A">>, 1)
    \/ ClearCache
    \/ \E d \in TickSteps : Tick(d)

SpecTTL == InitWith({"auto", "eastmoney", "mock"}) /\ [][NextTTL]_vars

\* clock steps around one minute and four hours
LongSteps == {61, 14400}

\* expiry per query type: the chart queries while the clock advances
NextTypeTTL ==
    \/ \E out \in QuietFns("intraday") : GetIntradayValuation("A", out, 1)
    \/ \E out \in QuietFns("history_data") : GetHistoricalNav("A", "y", out, 1)
    \/ \E out \in QuietFns("diagnostic") : GetFundDiagnostic("A", out, 1)
    \/ ClearCache
    \/ \E d \in LongSteps : Tick(d)

SpecTypeTTL == InitWith({"auto", "eastmoney"}) /\ [][NextTypeTTL]_vars

\* the probe next to valuation requests for the fund it probes with
NextProbe ==
    \/ \E out \in QuietFns("nav"), v \in Payloads : GetFundNav(ProbeCode, out, v)
    \/ \E s \in SourceNames \cup {"other"}, o \in Outcomes : CheckSourceHealth(s, o)
    \/ ClearCache

SpecProbe == InitWith({"auto", "eastmoney"}) /\ [][NextProbe]_vars

\* concurrent valuation requests while the clock passes the TTL once
NextThreads ==
    \/ \E t \in Threads : NavStep(t)
    \/ ticks = 0 /\ Tick(_cache_ttl)

SpecThreads == InitWith({"auto"}) /\ [][NextThreads]_vars

\* one request after another on one worker thread, against sources that may
\* raise; the thread is scheduled again and again until its request is over
NextRequest ==
    \/ NavSteps(1, Outcomes)
    \/ BatchStep(1)
    \/ ticks = 0 /\ Tick(_cache_ttl)

SpecRequestFair ==
    /\ InitWith({"auto", "eastmoney", "mock"})
    /\ [][NextRequest]_vars
    /\ WF_vars(NavSteps(1, Outcomes) \/ BatchStep(1))

(***************************************************************************)
(* Steps of the facade, recognised from the record of the last call        *)
(***************************************************************************)
\* this step is a call of operation op (Tick is the only step that keeps req)
IsCall(op) == req'.op = op /\ ticks' = ticks

(***************************************************************************)
(* C6: in the loop of get_fund_nav, the third failed attempt in a row on a *)
(* source leaves its status at "error", and an attempt that succeeds       *)
(* leaves its status at "ok" and its error_count at 0.                     *)
(***************************************************************************)
C6_ThreeFailuresThenError ==
    [][IsCall("nav") =>
        \A i \in DOMAIN calls' :
            LET c == calls'[i] IN
            c.src \in RealSources =>
                /\ (c.outcome # "data" /\ failed_attempts'[c.src] >= 3)
                      => _source_status'[c.src].status = "error"
                /\ c.outcome = "data"
                      => /\ _source_status'[c.src].status = "ok"
                         /\ _source_status'[c.src].error_count = 0]_vars

(***************************************************************************)
(* C7: every attempt of the loop of get_fund_nav in which the source       *)
(* returns nothing (without raising) adds one to its error_count.          *)
(***************************************************************************)
C7_EmptyAttemptCounted ==
    [][IsCall("nav") =>
        \A i \in DOMAIN calls' :
            LET c == calls'[i] IN
            (c.src \in RealSources /\ c.outcome = "empty")
                => _source_status'[c.src].error_count = _source_status[c.src].error_count + 1]_vars

(***************************************************************************)
(* C1: in production mode get_fund_nav, get_funds_nav and                  *)
(* get_market_indices never return a record made by the mock source, and   *)
(* return no data when every source of the order failed.                   *)
(***************************************************************************)
AllRealFailed ==
    /\ Len(calls) >= Len(SourceOrder(_preferred, _production_mode))
    /\ \A i \in DOMAIN calls : calls[i].src \in RealSources => calls[i].outcome # "data"

C1_NoMockInProduction ==
    _production_mode =>
        /\ req.op \in {"nav", "indices"} =>
              /\ ret.source # "mock"
              /\ AllRealFailed => ~Truthy(ret)
        /\ req.op = "funds_nav" =>
              \A code \in DOMAIN ret : ret[code].source # "mock"

(***************************************************************************)
(* C2: a request that walks the source order calls the sources in that     *)
(* order, returns the record of the first source that answers with data,   *)
(* calls no source after it, and the record's source field names it.       *)
(***************************************************************************)
C2_FirstNonEmptyWins ==
    (req.op \in {"nav", "detail", "indices"} /\ calls # <<>>) =>
        LET order == SourceOrder(_preferred, _production_mode)
            n == Len(calls)
        IN
        /\ n <= Len(order) + 1
        /\ \A i \in 1..n : i <= Len(order) => calls[i].src = order[i]
        /\ \A i \in 1..n :
              (i <= Len(order) /\ calls[i].outcome = "data") =>
                  /\ i = n
                  /\ Truthy(ret)
                  /\ ret.source = calls[i].src
                  /\ ret.kind = req.op

\* order [A, B, C, ...]: A failed, B answered, C was not called
C2_Witness ==
    /\ req.op = "nav"
    /\ Len(SourceOrder(_preferred, _production_mode)) >= 3
    /\ Len(calls) = 2
    /\ calls[1].outcome = "raise"
    /\ calls[2].outcome = "data"
    /\ ret.source = SourceOrder(_preferred, _production_mode)[2]

(***************************************************************************)
(* C10: get_funds_nav forwards no code that has a live cache entry, and    *)
(* forwards all the others together in one call to the first source of the *)
(* order; when that source has data for all of them it is the only call.   *)
(***************************************************************************)
LiveNavCodes(fund_codes) ==
    {code \in fund_codes :
        \E i \in 1..Len(_cache) :
            _cache[i].key = NavKey(code) /\ now - _cache[i].ts < _cache_ttl}

C10_BatchForwardsOnlyMissing ==
    [][IsCall("funds_nav") =>
        LET live == LiveNavCodes(req'.arg)
            missing == req'.arg \ live
            order == SourceOrder(_preferred, _production_mode)
        IN
        /\ \A i \in DOMAIN calls' : calls'[i].codes \cap live = {}
        /\ missing = {} => calls' = <<>>
        /\ missing # {} =>
              /\ calls' # <<>>
              /\ calls'[1].src = order[1]
              /\ calls'[1].codes = missing
        /\ (missing # {} /\ \A code \in missing : ret'[code].source = order[1])
              => Len(calls') = 1]_vars

\* request {A, B, C} with A cached: one call, for {B, C}
C10_Witness ==
    /\ req.op = "funds_nav"
    /\ req.arg = {"A", "B", "C"}
    /\ Len(calls) = 1
    /\ calls[1].codes = {"B", "C"}
    /\ Truthy(ret["A"]) /\ Truthy(ret["B"]) /\ Truthy(ret["C"])

(***************************************************************************)
(* C3: the cache never holds more than MAX_CACHE_SIZE entries.             *)
(***************************************************************************)
C3_CacheWithinCeiling == Len(_cache) <= MAX_CACHE_SIZE

(***************************************************************************)
(* C4: an insert into a cache that is at or above its ceiling evicts the   *)
(* entry inserted earliest among those present, and only that one: no      *)
(* entry inserted later is evicted while an earlier one remains.  _cache   *)
(* is in insertion order, so the earliest entry is its head.  (An insert   *)
(* that evicts nothing at all is what C3 is about.)                        *)
(***************************************************************************)
C4_EvictsEarliestInserted ==
    [][(/\ ticks' = ticks
        /\ req'.op # "clear_cache"
        /\ Len(_cache) >= MAX_CACHE_SIZE
        /\ CacheKeys(_cache') \ CacheKeys(_cache) # {}
        /\ CacheKeys(_cache) \ CacheKeys(_cache') # {})
       => \A i \in 1..Len(_cache) :
            _cache[i].key \notin CacheKeys(_cache')
                => \A j \in 1..(i - 1) : _cache[j].key \notin CacheKeys(_cache')]_vars

(***************************************************************************)
(* C8: no facade operation propagates an exception of a source.            *)
(***************************************************************************)
C8_NoExceptionPropagates == exc = FALSE

C5_NavEntryLivesForTTL ==
    [][IsCall("nav") =>
        \A i \in 1..Len(_cache) :
            LET e == _cache[i] IN
            e.key = NavKey(req'.arg) =>
                /\ now < e.ts + _cache_ttl =>
                      /\ ret' = e.data
                      /\ calls' = <<>>
                      /\ _cache' = _cache
                /\ now > e.ts + _cache_ttl =>
                      /\ calls' # <<>>
                      /\ calls'[1].src = SourceOrder(_preferred, _production_mode)[1]
                      /\ \A j \in 1..Len(_cache') :
                            _cache'[j].key = e.key => _cache'[j].ts = now]_vars

\* a hit 299 seconds or more after the entry was stored
C5_Witness ==
    /\ req.op = "nav"
    /\ calls = <<>>
    /\ \E i \in 1..Len(_cache) :
          /\ _cache[i].key = NavKey(req.arg)
          /\ _cache[i].data = ret
          /\ now - _cache[i].ts >= 299

(***************************************************************************)
(* C12: for a preferred_source that names a real source, _get_source_order *)
(* returns that source first, then the other real sources once each in the *)
(* default order (eastmoney_mobile, eastmoney, akshare), then the mock      *)
(* source outside production only.  Stated of the order a request has      *)
(* just walked.                                                            *)
(***************************************************************************)
DefaultOrder == <<"eastmoney_mobile", "eastmoney", "akshare">>

C12_PreferredThenDefaultOrder ==
    (_preferred \in RealSources /\ req.op \in {"nav", "detail", "indices"} /\ calls # <<>>) =>
        SourceOrder(_preferred, _production_mode) =
            <<_preferred>> \o SeqWithout(DefaultOrder, _preferred)
                \o (IF _production_mode THEN <<>> ELSE <<"mock">>)

(***************************************************************************)
(* C17: in production mode the order returned by _get_source_order does    *)
(* not contain the mock source, whatever preferred_source is.              *)
(***************************************************************************)
C17_NoMockInProductionOrder ==
    _production_mode => "mock" \notin SeqRange(SourceOrder(_preferred, _production_mode))

\* production with preferred_source = "mock": the walk started at eastmoney
C17_Witness ==
    /\ _production_mode
    /\ _preferred = "mock"
    /\ req.op = "nav"
    /\ calls # <<>>
    /\ calls[1].src = "eastmoney"

(***************************************************************************)
(* C13: outside production every query of the facade returns a non-empty   *)
(* result, whatever the real sources answer.                               *)
(***************************************************************************)
QueryOps ==
    {"nav", "indices", "detail", "intraday", "history_data", "yield", "diagnostic",
     "history", "holdings", "search", "rankings"}

C13_NonEmptyOutsideProduction ==
    (~_production_mode /\ req.op \in QueryOps /\ ~exc) => Truthy(ret)

(***************************************************************************)
(* C14: when a query returns a non-empty result that a real source         *)
(* produced in this call, the result is in the cache when the call         *)
(* returns.                                                                *)
(***************************************************************************)
C14_ResultWrittenBack ==
    (req.op \in QueryOps /\ calls # <<>> /\ Truthy(ret) /\ ret.source # "mock" /\ ~exc) =>
        \E i \in 1..Len(_cache) : _cache[i].data = ret

(***************************************************************************)
(* C15: an intraday entry is not served once 60 seconds have passed since  *)
(* it was stored, and a historical, yield or diagnostic entry is not       *)
(* served once 4 hours have passed: the query calls the sources again.     *)
(* An entry was stored at its timestamp less the offset its writer added.  *)
(***************************************************************************)
TypeTTL(op) == IF op = "intraday" THEN 60 ELSE 4 * 3600

C15_ExpiresAtOwnTTL ==
    [][(ticks' = ticks /\ req'.op \in {"intraday", "history_data", "yield", "diagnostic"}) =>
        \A i \in 1..Len(_cache) :
            LET e == _cache[i] IN
            (e.key = req'.arg /\ now - (e.ts - TsOffset(req'.op)) >= TypeTTL(req'.op))
                => calls' # <<>>]_vars

(***************************************************************************)
(* C16: check_source_health leaves the cache as it was, for every source   *)
(* name and outcome, and asks the named source itself: the answer is not   *)
(* taken from the cache even when the cache holds the probed fund.         *)
(***************************************************************************)
C16_ProbeLeavesCache ==
    [][IsCall("check_source_health") =>
        /\ _cache' = _cache
        /\ req'.arg \in SourceNames =>
              /\ Len(calls') = 1
              /\ calls'[1].src = req'.arg
        /\ req'.arg \notin SourceNames => calls' = <<>>]_vars

\* a probe that succeeded while the cache held the probed fund
C16_Witness ==
    /\ req.op = "check_source_health"
    /\ req.arg \in RealSources
    /\ ret.kind = "ok"
    /\ calls # <<>>
    /\ NavKey(ProbeCode) \in CacheKeys(_cache)

(***************************************************************************)
(* C18: one request calls no source twice, the mock call after the loop    *)
(* included.                                                               *)
(***************************************************************************)
C18_NoSourceCalledTwice ==
    \A i, j \in 1..Len(calls) : i # j => calls[i].src # calls[j].src

\* production: every source of the order failed and the mock source was
\* called after the loop
C18_Witness ==
    /\ _production_mode
    /\ req.op = "nav"
    /\ Len(calls) = Len(SourceOrder(_preferred, _production_mode)) + 1
    /\ calls[Len(calls)].src = "mock"

(***************************************************************************)
(* C20: an attempt made by an operation other than get_fund_nav is         *)
(* recorded in the health record of the source as get_fund_nav records     *)
(* it: data sets status "ok", last_success and error_count 0, an           *)
(* exception adds one to error_count.                                      *)
(***************************************************************************)
C20_EveryOperationRecordsHealth ==
    [][(ticks' = ticks /\ req'.op \in {"detail", "funds_nav"}) =>
        \A i \in DOMAIN calls' :
            LET c == calls'[i] IN
            c.src \in RealSources =>
                /\ c.outcome = "data" =>
                      /\ _source_status'[c.src].status = "ok"
                      /\ _source_status'[c.src].last_success = now
                      /\ _source_status'[c.src].error_count = 0
                /\ c.outcome = "raise" =>
                      _source_status'[c.src].error_count = _source_status[c.src].error_count + 1]_vars

(***************************************************************************)
(* C11: requests that interleave on worker threads never fail with an      *)
(* exception that comes from the interleaving.  The sources do not raise   *)
(* here, so a request that raised did so in a cache statement.             *)
(***************************************************************************)
C11_NoFailureFromInterleaving ==
    \A t \in Threads : threads[t].pc # "raised"

(***************************************************************************)
(* C19: a request that walks the source order goes from trying one source  *)
(* to success, to exhaustion or to trying the next source, makes at most   *)
(* one attempt per source of the order, and ends in success or exhaustion. *)
(***************************************************************************)
Trying(th) == th.pc \in {"loop", "batch"}
Succeeded(th) == th.pc = "set_len" \/ (th.op = "funds_nav" /\ th.pc = "returned")
Exhausted(th) == th.pc \in {"fallback", "bfallback"}

C19_RequestTerminates ==
    /\ [][Trying(threads[1]) =>
            \/ Trying(threads'[1]) /\ threads'[1].i = threads[1].i + 1
            \/ Succeeded(threads'[1])
            \/ Exhausted(threads'[1])]_threads
    /\ [](threads[1].n <= Len(SourceOrder(_preferred, _production_mode)))
    /\ Trying(threads[1]) ~> (Succeeded(threads[1]) \/ Exhausted(threads[1]))

\* every source of a three-source order was tried once and the request is exhausted
C19_Witness ==
    /\ Exhausted(threads[1])
    /\ threads[1].n = 3
    /\ Len(SourceOrder(_preferred, _production_mode)) = 3

(***************************************************************************)
(* C21: the source order does not depend on the health table: it is the    *)
(* same before and after every step, and get_fund_nav calls the sources at *)
(* their positions of the order whatever their status is.                  *)
(***************************************************************************)
C21_OrderIgnoresHealth ==
    [][/\ SourceOrder(_preferred, _production_mode)' = SourceOrder(_preferred, _production_mode)
       /\ IsCall("nav") =>
             \A i \in 1..Len(calls') :
                 i <= Len(SourceOrder(_preferred, _production_mode))
                     => calls'[i].src = SourceOrder(_preferred, _production_mode)[i]]_vars

\* the first source of the order was called although its status was "error"
\* already (its error_count had reached 3 before this attempt)
C21_Witness ==
    /\ req.op = "nav"
    /\ calls # <<>>
    /\ calls[1].src = SourceOrder(_preferred, _production_mode)[1]
    /\ calls[1].outcome = "raise"
    /\ _source_status[calls[1].src].status = "error"
    /\ _source_status[calls[1].src].error_count >= 4

(***************************************************************************)
(* C22: two queries that differ in operation or in a parameter never use   *)
(* the same cache entry, so a cache hit returns a value of the type of the *)
(* operation that was requested.                                           *)
(***************************************************************************)
\* fund codes as the linus-report endpoint passes them on: the path parameter
\* is any string, here a plain code and one that starts with "data_"
PathCodes == {"A", "data_A"}

\* the two history queries over these codes
NextKeys ==
    \/ \E code \in PathCodes, out \in QuietFns("history_data") :
          GetHistoricalNav(code, "y", out, 1)
    \/ \E code \in PathCodes, out \in QuietFns("history_data"), v \in Payloads :
          GetFundNavHistory(code, "y", out, v)
    \/ \E code \in PathCodes, out \in QuietFns("detail") : GetFundDetails(code, out, 1)
    \/ ClearCache

SpecKeys == InitWith({"auto", "eastmoney"}) /\ [][NextKeys]_vars

\* C22: a request answered from the cache returns a record of its own kind
C22_HitHasRequestedType ==
    [][\A op \in {"history_data", "history", "detail"} :
          IsCall(op) /\ Truthy(ret') /\ calls' = <<>> => ret'.kind = op]_vars

C24_ServedCodesLeaveMissingSet ==
    [][IsCall("funds_nav") =>
        LET served(i) == {code \in calls'[i].codes : ret'[code].source = calls'[i].src}
        IN
        /\ \A i \in DOMAIN calls' : calls'[i].codes # {}
        /\ \A i \in DOMAIN calls' :
              i > 1 => calls'[i].codes = calls'[i - 1].codes \ served(i - 1)
        /\ \A i, j \in DOMAIN calls' :
              i < j => calls'[j].codes \cap served(i) = {}]_vars

\* the first source served some of the three codes it was asked for and the
\* second source was asked for the rest
C24_Witness ==
    /\ req.op = "funds_nav"
    /\ Len(calls) >= 2
    /\ calls[1].codes = {"A", "B", "C"}
    /\ calls[1].outcome = "data"
    /\ calls[2].codes # {}
    /\ calls[2].codes # calls[1].codes
    /\ \A code \in calls[1].codes \ calls[2].codes : ret[code].source = calls[1].src

(***************************************************************************)
(* C25: every HistoricalData that get_historical_nav returns has its       *)
(* points strictly ascending by date, without duplicate dates, whatever    *)
(* rows the upstream sends.                                                *)
(***************************************************************************)
MaxRows == 3
MaxDay == 2

\* the "Datas" rows of a FundNetDiagram response: FSRQ is the date as a day
\* number (ISO date strings compare as the days do), 0 when the row has no
\* FSRQ (item.get("FSRQ", "") is "", which sorts before every date)
UpstreamDatas == UNION {[1..n -> [FSRQ : 0..MaxDay, DWJZ : {1}]] : n \in 0..MaxRows}

\* for item in datas: points.append(HistoricalPoint(date=..., nav=...))
HistoricalPoints(datas) ==
    [i \in 1..Len(datas) |-> [date |-> datas[i].FSRQ, nav |-> datas[i].DWJZ]]

\* if data.get("ErrCode") != 0 or not data.get("Datas"): return None
MobileOutcome(datas) == IF datas = <<>> THEN "empty" ELSE "data"

\* get_historical_nav while the mobile upstream answers with datas; the
\* payload of the record is the list of points
GetHistoricalNavOf(code, range, datas) ==
    GetHistoricalNav(code, range,
                     [s \in RealSources |->
                         IF s = "eastmoney_mobile" THEN MobileOutcome(datas) ELSE "empty"],
                     HistoricalPoints(datas))

NextHistory ==
    \/ \E code \in ChartCodes, datas \in UpstreamDatas : GetHistoricalNavOf(code, "y", datas)
    \/ ClearCache

SpecHistory == InitWith({"auto", "eastmoney"}) /\ [][NextHistory]_vars

\* C25: the points of a returned HistoricalData ascend strictly by date
C25_PointsStrictlyAscending ==
    (req.op = "history_data" /\ Truthy(ret)) =>
        \A i, j \in DOMAIN ret.val : i < j => ret.val[i].date < ret.val[j].date

(***************************************************************************)
(* C26: the score of a fund diagnostic is an integer in 0..100 for every   *)
(* combination of the fund-size, manager-tenure and manager-return         *)
(* brackets.                                                               *)
(***************************************************************************)
\* detail.fund_size: the unit it names ("yi" for the character the code looks
\* for, "wan" for another unit, "" for an empty fund_size) and the number in
\* tenths, on both sides of every bracket boundary (0.5, 10, 50, 100)
FundSizes == [unit : {"", "yi", "wan"}, tenths : {4, 5, 100, 101, 500, 501, 1000, 1001}]

\* mgr.work_time: whether it holds "<digits>年", and the digits
WorkTimes ==
    {[found |-> FALSE, years |-> 0]} \cup [found : {TRUE}, years : {0, 1, 3, 4, 5, 6}]

\* mgr.return_rate: whether float() parses it, and the value
ReturnRates ==
    {[parsed |-> FALSE, rate |-> 0]} \cup [parsed : {TRUE}, rate : {-1, 0, 50, 51, 100, 101}]

FoundationFactor(size) ==
    60 + (IF size.unit = "yi"
          THEN IF size.tenths > 1000 THEN 20
               ELSE IF size.tenths > 500 THEN 15
               ELSE IF size.tenths > 100 THEN 10
               ELSE IF size.tenths < 5 THEN -10
               ELSE 0
          ELSE 0)

ManagerFactor(work) ==
    60 + (IF work.found
          THEN IF work.years > 5 THEN 20
               ELSE IF work.years > 3 THEN 10
               ELSE IF work.years < 1 THEN -5
               ELSE 0
          ELSE 0)

PerformanceFactor(r) ==
    60 + (IF r.parsed
          THEN IF r.rate > 100 THEN 20
               ELSE IF r.rate > 50 THEN 10
               ELSE IF r.rate < 0 THEN -10
               ELSE 0
          ELSE 0)

Min(a, b) == IF a < b THEN a ELSE b
Max(a, b) == IF a > b THEN a ELSE b

\* the weighted sum without the division by 4 and without the clamp
DiagnosticScore_RawSum(f, m, p) == (2 * f + 3 * m + 3 * p) \div 2

\* score = int((f + m * 1.5 + p * 1.5) / 4); score = min(99, max(40, score)):
\* (f + 1.5 m + 1.5 p) / 4 = (2 f + 3 m + 3 p) / 8, exact in floating point
\* for these values, and int() of a positive number is its floor
DiagnosticScore(f, m, p) == Min(99, Max(40, (2 * f + 3 * m + 3 * p) \div 8))

\* FundDiagnosticData(score=score, factors=factors, ...)
DiagnosticData(size, work, r) ==
    LET f == FoundationFactor(size)
        m == ManagerFactor(work)
        p == PerformanceFactor(r)
    IN [score |-> DiagnosticScore(f, m, p),
        factors |-> [foundation |-> f, manager |-> m, performance |-> p]]

\* get_fund_diagnostic while the mobile source has the fund's details (out
\* says whether it answers at all); the payload of the record is the
\* diagnostic computed from them
GetFundDiagnosticOf(code, out, size, work, r) ==
    GetFundDiagnostic(code, out, DiagnosticData(size, work, r))

NextDiagnostic ==
    \/ \E code \in ChartCodes, out \in OutcomeFns("diagnostic"),
          size \in FundSizes, work \in WorkTimes, r \in ReturnRates :
            GetFundDiagnosticOf(code, out, size, work, r)
    \/ ClearCache

SpecDiagnostic == InitWith({"auto", "eastmoney"}) /\ [][NextDiagnostic]_vars

\* C26: a returned diagnostic has an integer score between 0 and 100
C26_ScoreInRange ==
    (req.op = "diagnostic" /\ Truthy(ret)) => ret.val.score \in 0..100

\* the diagnostics of the highest and of the lowest brackets
C26_Witness ==
    /\ req.op = "diagnostic"
    /\ Truthy(ret)
    /\ \/ ret.val = [score |-> 80,
                     factors |-> [foundation |-> 80, manager |-> 80, performance |-> 80]]
       \/ ret.val = [score |-> 51,
                     factors |-> [foundation |-> 50, manager |-> 55, performance |-> 50]]

(***************************************************************************)
(* C27: while get_fund_nav runs concurrently for distinct funds, the cache *)
(* never holds more than MAX_CACHE_SIZE entries, however the size check,   *)
(* the eviction and the insert of the threads interleave.                  *)
(***************************************************************************)
\* the funds each worker thread is asked for: more funds than the cache has
\* room for, and no fund on two threads
CeilingCodes(t) == IF t = 1 THEN {"A", "B"} ELSE {"C"}

NextCeiling ==
    \/ \E t \in Threads : NavStepsOn(t, CeilingCodes(t), {"data", "empty"})
    \/ ticks = 0 /\ Tick(_cache_ttl)

SpecCeiling == InitWith({"auto"}) /\ [][NextCeiling]_vars

\* C27: the number of entries stays within the ceiling while no two threads
\* work on the same fund
C27_CeilingUnderConcurrency ==
    (\A t, u \in Threads :
        (t # u /\ threads[t].pc # "idle" /\ threads[u].pc # "idle")
            => threads[t].code # threads[u].code)
        => Len(_cache) <= MAX_CACHE_SIZE

C29_NoMockInProductionCache ==
    _production_mode => \A i \in 1..Len(_cache) : _cache[i].data.source # "mock"

\* in production a request was answered by the mock source as the last
\* resort, next to an entry of a real source, and left no entry of its own
C29_Witness ==
    /\ _production_mode
    /\ req.op = "nav"
    /\ ret.source = "mock"
    /\ _cache # <<>>
    /\ NavKey(req.arg) \notin CacheKeys(_cache)

(***************************************************************************)
(* C30: the cache never stores an empty result: every cached value is a    *)
(* non-empty record or list, and a request that ends with nothing (no      *)
(* source had data) neither creates nor overwrites an entry.               *)
(***************************************************************************)
\* the queries whose sources may have nothing: valuation (single and batch),
\* the history list and the search
NextEmpty ==
    \/ \E out \in QuietFns("nav") : GetFundNav("A", out, 1)
    \/ \E a \in BatchAnswers({"A", "B"}) :
          GetFundsNav({"A", "B"}, a.raises, ServesOf(a), <<"A", "B">>, 1)
    \/ \E out \in OutcomeFns("history_data") : GetFundNavHistory("A", "y", out, 1)
    \/ \E keyword \in Keywords, o \in Outcomes : SearchFund(keyword, o, 1)
    \/ ClearCache

SpecEmpty == InitWith({"auto"}) /\ [][NextEmpty]_vars

\* C30: no step leaves an empty value in the cache, and a step that returns
\* nothing writes no entry
C30_NoEmptyResultCached ==
    [][/\ \A i \in 1..Len(_cache') : Truthy(_cache'[i].data)
       /\ (ticks' = ticks /\ req'.op # "funds_nav" /\ ~Truthy(ret')) =>
              \A i \in 1..Len(_cache') : \E j \in 1..Len(_cache) : _cache'[i] = _cache[j]]_vars

\* a search that found nothing, next to a cached entry: the empty list was
\* returned and no entry was written for the keyword
C30_Witness ==
    /\ req.op = "search"
    /\ ret = EmptyList
    /\ calls # <<>>
    /\ calls[1].outcome = "empty"
    /\ _cache # <<>>
    /\ req.arg \notin CacheKeys(_cache)
====
